---- MODULE Spec2Model ----
(***************************************************************************)
(* Model of the hsp2 psiTurk/jsPsych experiment client.                     *)
(*                                                                         *)
(* Three revisions of the client script are in the repository:             *)
(*   "exp"      src/psiturk/static/js/exp.js  (items with a verbs object)   *)
(*   "part_000" src/unnamed/part_000          (scenes only, no test)        *)
(*   "part_001" src/unnamed/part_001          (blocks with a slider test)   *)
(* The variable `variant` says which one the page has loaded.               *)
(*                                                                         *)
(* A JavaScript string is modelled as the sequence of its pieces (tokens), *)
(* string concatenation and Array.join("") as sequence concatenation.      *)
(***************************************************************************)
EXTENDS Integers, Sequences, FiniteSets

VARIABLES variant, payload, pc, timeline, preload_images, calls, produced

vars == <<variant, payload, pc, timeline, preload_images, calls, produced>>

(***************************************************************************)
(* Bounds of the model.                                                     *)
(***************************************************************************)
\* items (blocks) per payload
MaxItems == 2
\* training trials per payload
MaxTrials == 2
\* items per payload in the whole-session specification
SessionItems == 1
\* training trials per payload in the whole-session specification
SessionTrials == 1
\* data-update events the runner emits in one session
MaxRecords == 2

(***************************************************************************)
(* Generic helpers.                                                         *)
(***************************************************************************)
Range(s) == {s[i] : i \in 1..Len(s)}

SeqsUpTo(S, n) == UNION {[1..k -> S] : k \in 0..n}

\* concatenation of a sequence of sequences: Array.join("") on strings
RECURSIVE Join(_)
Join(ss) == IF ss = <<>> THEN <<>> ELSE Head(ss) \o Join(Tail(ss))

\* all sequences that pick, at each index, one element of the set there
RECURSIVE SeqChoices(_)
SeqChoices(sets) ==
  IF sets = <<>> THEN {<<>>}
  ELSE {<<x>> \o rest : x \in Head(sets), rest \in SeqChoices(Tail(sets))}

\* a[i] of a JavaScript array, 1-based here; out of range reads undefined,
\* which string concatenation prints as "undefined"
UNDEFINED == "undefined"
At(a, i) == IF i \in 1..Len(a) THEN a[i] ELSE UNDEFINED

\* jsPsych.randomization.shuffle(a): every reordering of a is a possible result
Shuffles(a) ==
  {[i \in 1..Len(a) |-> a[p[i]]] :
     p \in {q \in [1..Len(a) -> 1..Len(a)] : \A i, j \in 1..Len(a) : q[i] = q[j] => i = j}}

\* String.prototype.replace(pattern, replacement) with a string pattern:
\* only the first occurrence is replaced
RECURSIVE ReplaceFirst(_, _, _)
ReplaceFirst(words, pat, repl) ==
  IF words = <<>> THEN <<>>
  ELSE IF Head(words) = pat THEN repl \o Tail(words)
  ELSE <<Head(words)>> \o ReplaceFirst(Tail(words), pat, repl)

(***************************************************************************)
(* Fixed blocks (texts abbreviated).                                        *)
(***************************************************************************)
CONDITIONS == <<"verb", "syntax">>

instructions_block ==
  [type |-> "instructions",
   pages |-> IF variant = "part_000"
             THEN <<"Welcome!", "<p>In this experiment, ...</p>">>
             ELSE <<"<p>Welcome! In this experiment, ...</p>",
                    "<p>In a remarkable coincidence, ...</p>">>,
   show_clickable_nav |-> TRUE]

age_block ==
  [type |-> "survey-text",
   preamble |-> "Please provide us with some demographic information.",
   questions |-> <<[prompt |-> "How old are you (in years)?"]>>]

demo_block ==
  [type |-> "survey-multi-choice",
   questions |->
     <<[prompt |-> "What is the highest level of education you have completed?",
        options |-> <<"Did not complete high school", "High school/GED",
                      "Some college", "Bachelor's degree", "Master's degree", "Ph.D.">>,
        required |-> TRUE],
       [prompt |-> "Is English your first language?",
        options |-> <<"Yes", "No">>,
        required |-> TRUE]>>]

iti_block ==
  [type |-> "html-keyboard-response",
   stimulus |-> "<div style='font-size: 20pt;'>Please wait&hellip;</div>",
   choices |-> "NO_KEYS",
   trial_duration |-> 1000]

comments_block ==
  [type |-> "survey-text",
   preamble |-> IF variant = "part_001"
                THEN "<p>Thanks ... You will be compensated $0.60 in total.</p>..."
                ELSE "<p>Thanks ... will be compensated $0.30 in total.</p>...",
   questions |-> <<[prompt |-> "Do you have any comments to share with us?"]>>,
   button_label |-> "Finish"]

(***************************************************************************)
(* Payloads: what GET /item_seq may return.  The server is not part of the *)
(* client, so every payload built from the sample trials below, within the *)
(* bounds, is an input.                                                    *)
(***************************************************************************)
\* exp.js: item = {verbs: {real verb: {form_stem}}, trials: [{scene_image_url,
\* sentence_data: [{verb_stem, verb_nonce, sentence_nonce}]}]}.  The verbs
\* object is its key/value pairs in key order.
ExpVerbEat == [verb |-> "eat", forms |-> [form_stem |-> "dax"]]
ExpVerbRun == [verb |-> "run", forms |-> [form_stem |-> "blick"]]
ExpVerbLists == {<<ExpVerbEat>>, <<ExpVerbEat, ExpVerbRun>>}

ExpSdEat ==
  [verb_stem |-> "eat", verb_nonce |-> "daxed", sentence_nonce |-> <<"the florp ", "daxed">>]
ExpSdRun ==
  [verb_stem |-> "run", verb_nonce |-> "blicks", sentence_nonce |-> <<"a gat ", "blicks">>]
ExpTrialPool ==
  {[scene_image_url |-> "a.png", sentence_data |-> <<ExpSdEat, ExpSdRun>>],
   [scene_image_url |-> "b.png", sentence_data |-> <<ExpSdEat>>]}

\* An item of the data model has at least one trial.  An item without trials
\* is an input only with a verb count other than two: with trials such an
\* item stops at the assertion of the training callback, without trials that
\* callback never runs.
ExpItems ==
  {it \in {[verbs |-> v, trials |-> t] :
             v \in ExpVerbLists, t \in SeqsUpTo(ExpTrialPool, MaxTrials)} :
     it.trials = <<>> => Len(it.verbs) # 2}

\* part_001: block = {item_idx, verb, contrast_verbs, nonce_verb, trials:
\* [{scene, scene_image_url, sentence_data: {sentence, sentence_nonce,
\* verb: {stem}, nonce_verb: {form}}}]}
P1ContrastLists == {<<>>, <<"run">>, <<"run", "nap">>}
P1TrialPool ==
  {[scene |-> "sceneA", scene_image_url |-> "a.png",
    sentence_data |-> [sentence |-> "the dog eats", sentence_nonce |-> <<"the florp ", "daxes">>,
                       verb |-> [stem |-> "eat"], nonce_verb |-> [form |-> "daxes"]]],
   [scene |-> "sceneB", scene_image_url |-> "b.png",
    sentence_data |-> [sentence |-> "a cat ate", sentence_nonce |-> <<"a gat ", "daxed">>,
                       verb |-> [stem |-> "eat"], nonce_verb |-> [form |-> "daxed"]]]}

\* part_001 has no assertion, so a block without trials is no case of its
\* own: every block has at least one trial, as in the data model
P1Blocks ==
  {b \in {[item_idx |-> 0, verb |-> "eat", contrast_verbs |-> c, nonce_verb |-> "dax",
           trials |-> t] :
            c \in P1ContrastLists, t \in SeqsUpTo(P1TrialPool, MaxTrials)} :
     b.trials # <<>>}

\* part_000: an item is the array of its trials, trial = {scene_image_url}
P0TrialPool == {[scene_image_url |-> "a.png"], [scene_image_url |-> "b.png"]}
P0Items == SeqsUpTo(P0TrialPool, MaxTrials)

Variants == {"exp", "part_000", "part_001"}

ItemPool(v) == IF v = "exp" THEN ExpItems ELSE IF v = "part_001" THEN P1Blocks ELSE P0Items

TrialsOf(v, item) == IF v = "part_000" THEN item ELSE item.trials

RECURSIVE TotalTrials(_, _)
TotalTrials(v, items) ==
  IF items = <<>> THEN 0 ELSE Len(TrialsOf(v, Head(items))) + TotalTrials(v, Tail(items))

\* data["items"] (exp.js, part_000) or data["blocks"] (part_001)
ItemsOf(v, data) == IF v = "part_001" THEN data.blocks ELSE data.items

Payloads(v, nItems, nTrials) ==
  {IF v = "part_001" THEN [blocks |-> s] ELSE [items |-> s] :
     s \in {q \in SeqsUpTo(ItemPool(v), nItems) : TotalTrials(v, q) <= nTrials}}

(***************************************************************************)
(* exp.js: setup_experiment, one item.                                      *)
(***************************************************************************)
\* $.map(item["verbs"], (forms, verb) => verb), also Object.keys(item["verbs"])
ExpRealVerbs(item) == [i \in 1..Len(item.verbs) |-> item.verbs[i].verb]

\* $.map(item["verbs"], (forms, verb) => forms.form_stem)
ExpNonceVerbs(item) == [i \in 1..Len(item.verbs) |-> item.verbs[i].forms.form_stem]

\* item["verbs"][verb].form_stem
ExpFormStem(item, verb) ==
  (CHOOSE e \in Range(item.verbs) : e.verb = verb).forms.form_stem

ExpIntroBlock(item, condition) ==
  [type |-> "instructions",
   show_clickable_nav |-> TRUE,
   pages |-> <<<<"<p>We are now going to study these Zarf verbs:</p>">>
               \o Join([i \in 1..Len(item.verbs) |->
                          <<"<p class='zarf-verb'>", ExpNonceVerbs(item)[i], "</p>">>])
               \o <<"<p>We will hear Zarf speakers use these verbs ...</p>",
                    "<p>Next, we'll ask you to guess their translations in English.</p>">>>>,
   data |-> [condition |-> condition]]

\* mutant of ExpSentenceHtml: the sentence is masked under every condition
ExpSentenceHtml_AlwaysMasked(condition, sentence_data) ==
  <<"<p class='zarf-sentence' data-verb='", sentence_data.verb_stem, "'>",
    "<span class='noise'>#####</span> <strong>", sentence_data.verb_nonce,
    "</strong> <span class='noise'>#####</span> !</p>">>

\* one entry of sentence_htmls
ExpSentenceHtml(condition, sentence_data) ==
  IF condition = "syntax"
  THEN <<"<p class='zarf-sentence' data-verb='", sentence_data.verb_stem, "'>">>
       \o ReplaceFirst(sentence_data.sentence_nonce, sentence_data.verb_nonce,
                       <<"<strong>", sentence_data.verb_nonce, "</strong>">>)
       \o <<"</p>">>
  ELSE <<"<p class='zarf-sentence' data-verb='", sentence_data.verb_stem, "'>",
         "<span class='noise'>#####</span> <strong>", sentence_data.verb_nonce,
         "</strong> <span class='noise'>#####</span> !</p>">>

ExpPrompt(condition) ==
  <<"<p class='quiet-instructions'>Read the below and then press any key to proceed.</p>">>
  \o (IF condition = "syntax"
      THEN <<"<p>The Zarf speaker saw the following scene and described it with the sentences:</p>">>
      ELSE IF condition = "verb"
      THEN <<"<p>The Zarf speaker saw ... we've lost everything but the verb they used. ...</p>">>
      ELSE <<>>)

ImageHtml(url) == <<"<img class='stim-image' src='", url, "' style='max-height: 300px;' />">>

ExpQuery(all_nonce_verbs) ==
  <<"<p>What might <strong>", At(all_nonce_verbs, 1), "</strong> and <strong>",
    At(all_nonce_verbs, 2), "</strong> mean?</p>">>

\* the sentence_htmls of one training trial, its sentences in the order drawn;
\* it stays [] under a condition that is neither "syntax" nor "verb"
ExpSentenceHtmls(condition, trial_sentences) ==
  IF condition \in {"syntax", "verb"}
  THEN [i \in 1..Len(trial_sentences) |-> ExpSentenceHtml(condition, trial_sentences[i])]
  ELSE <<>>

\* the callback of the training map, for one trial
ExpSceneBlock(item, condition, trial, trial_sentences) ==
  [type |-> "html-keyboard-response",
   stimulus |-> ExpPrompt(condition)
                \o Join(ExpSentenceHtmls(condition, trial_sentences))
                \o ExpQuery(ExpNonceVerbs(item))
                \o ImageHtml(trial.scene_image_url),
   choices |-> "ALL_KEYS",
   post_trial_gap |-> 1000,
   data |-> [condition |-> condition]]

\* assert(all_nonce_verbs.length == 2), reached once per training trial
ExpTrainingThrows(item) == Len(item.trials) > 0 /\ Len(ExpNonceVerbs(item)) # 2

\* every outcome of R.shuffle(item["trials"]) with R.shuffle(trial["sentence_data"])
\* drawn for each trial: sequences of [trial, trial_sentences]
ExpTrainingDraws(item) ==
  UNION {SeqChoices([i \in 1..Len(shuffled) |->
                       {[trial |-> shuffled[i], trial_sentences |-> ts] :
                          ts \in Shuffles(shuffled[i].sentence_data)}]) :
           shuffled \in Shuffles(item.trials)}

\* mutant of ExpTrainingBlocks: the first shuffled trial is skipped
ExpTrainingBlocks_SkipsFirst(item, condition, draws) ==
  IF draws = <<>> THEN <<>>
  ELSE [i \in 1..Len(Tail(draws)) |->
          ExpSceneBlock(item, condition, Tail(draws)[i].trial, Tail(draws)[i].trial_sentences)]

ExpTrainingBlocks(item, condition, draws) ==
  [i \in 1..Len(draws) |->
     ExpSceneBlock(item, condition, draws[i].trial, draws[i].trial_sentences)]

\* mutant of ExpAllSentenceHtmls: assignment instead of concat, so only the
\* last trial's sentences are kept
ExpAllSentenceHtmls_LastOnly(condition, draws) ==
  IF draws = <<>> THEN <<>>
  ELSE ExpSentenceHtmls(condition, draws[Len(draws)].trial_sentences)

\* all_sentence_htmls after the training map: declared inside the item callback
ExpAllSentenceHtmls(condition, draws) ==
  Join([i \in 1..Len(draws) |-> ExpSentenceHtmls(condition, draws[i].trial_sentences)])

\* mutant of ExpTestQuestion: the question is named after the nonce verb
ExpTestQuestion_NamedByNonce(item, verb, options) ==
  [prompt |-> <<"What is the most likely meaning of the word <strong>",
                ExpFormStem(item, verb), "</strong>?">>,
   options |-> options,
   required |-> TRUE,
   name |-> <<"meaning/", ExpFormStem(item, verb)>>]

ExpTestQuestion(item, verb, options) ==
  [prompt |-> <<"What is the most likely meaning of the word <strong>",
                ExpFormStem(item, verb), "</strong>?">>,
   options |-> options,
   required |-> TRUE,
   name |-> <<"meaning/", verb>>]

ExpTestBlock(item, condition, draws, test_verb_sequence, option_orders) ==
  [type |-> "survey-multi-choice",
   preamble |-> <<"<p>You saw the following sentences:</p>">>
                \o Join(ExpAllSentenceHtmls(condition, draws))
                \o <<"<p>Our linguists think the verbs <strong>",
                     At(ExpNonceVerbs(item), 1), "</strong> and <strong>",
                     At(ExpNonceVerbs(item), 2), "</strong> might have ... mapping.</p>">>,
   questions |-> [i \in 1..Len(test_verb_sequence) |->
                    ExpTestQuestion(item, test_verb_sequence[i], option_orders[i])],
   data |-> [condition |-> condition, verb_sequence |-> test_verb_sequence]]

ExpItemChunk(item, condition, draws, test_verb_sequence, option_orders) ==
  [chunk_type |-> "linear",
   timeline |-> <<ExpIntroBlock(item, condition)>>
                \o ExpTrainingBlocks(item, condition, draws)
                \o <<ExpTestBlock(item, condition, draws, test_verb_sequence, option_orders)>>,
   data |-> [foo |-> "test"]]

\* preload_images.push(trial.scene_image_url), once per training callback
ExpPreloads(draws) == [i \in 1..Len(draws) |-> draws[i].trial.scene_image_url]

\* every way the item callback can end: it throws, or returns a chunk having
\* pushed some images
ExpItemRuns(item) ==
  IF ExpTrainingThrows(item)
  THEN {[throws |-> TRUE]}
  ELSE {[throws |-> FALSE,
         chunk |-> ExpItemChunk(item, condition, draws, tvs, oo),
         images |-> ExpPreloads(draws)] :
          condition \in Range(CONDITIONS),
          draws \in ExpTrainingDraws(item),
          tvs \in Shuffles(ExpRealVerbs(item)),
          oo \in [1..Len(item.verbs) -> Shuffles(ExpRealVerbs(item))]}

(***************************************************************************)
(* part_001: setup_experiment, one block.                                   *)
(***************************************************************************)
\* mutant of P1RealVerbs: every contrast verb is offered, not the first alone
P1RealVerbs_AllContrasts(block) == <<block.verb>> \o block.contrast_verbs

\* [block.verb, block.contrast_verbs[0]]; nothing checks the contrast list
P1RealVerbs(block) == <<block.verb, At(block.contrast_verbs, 1)>>

P1BlockData(block, condition, stage) ==
  [condition |-> condition, stage |-> stage, item_idx |-> block.item_idx,
   verb |-> block.verb, contrast_verbs |-> block.contrast_verbs,
   nonce_verb |-> block.nonce_verb]

P1IntroBlock(block, condition) ==
  [type |-> "instructions",
   show_clickable_nav |-> TRUE,
   pages |-> <<<<"<p>We are now going to study this Zarf verb:</p>",
                 "<p class='zarf-verb'>", block.nonce_verb, "</p>",
                 "<p>We will hear Zarf speakers use this verb ...</p>",
                 "<p>Next, we'll ask you to guess their translations in English.</p>">>>>,
   data |-> P1BlockData(block, condition, "introduction")]

\* sentence_html of one training trial; null (printed "null") under a
\* condition that is neither "syntax" nor "verb"
P1SentenceHtml(condition, trial) ==
  IF condition = "syntax"
  THEN <<"<p class='zarf-sentence' data-verb='", trial.sentence_data.verb.stem, "'>">>
       \o ReplaceFirst(trial.sentence_data.sentence_nonce, trial.sentence_data.nonce_verb.form,
                       <<"<strong>", trial.sentence_data.nonce_verb.form, "</strong>">>)
       \o <<"</p>">>
  ELSE IF condition = "verb"
  THEN <<"<p class='zarf-sentence' data-verb='", trial.sentence_data.verb.stem, "'>",
         "<span class='noise'>#####</span> <strong>", trial.sentence_data.nonce_verb.form,
         "</strong> <span class='noise'>#####</span> !</p>">>
  ELSE <<"null">>

P1Prompt(condition) ==
  IF condition = "syntax"
  THEN <<"<p>The Zarf speaker saw the following scene and described it with the sentence:</p>">>
  ELSE IF condition = "verb"
  THEN <<"<p>The Zarf speaker saw ... we've lost everything but the verb they used. ...</p>">>
  ELSE <<>>

P1Query(trial) ==
  <<"<p>What might <strong>", trial.sentence_data.nonce_verb.form, "</strong> mean?</p>">>

\* the callback of the training map, for one trial
P1SceneTrial(block, condition, trial) ==
  [type |-> "delayed-html-keyboard-response",
   stimulus |-> P1Prompt(condition) \o P1SentenceHtml(condition, trial)
                \o P1Query(trial) \o ImageHtml(trial.scene_image_url),
   choices |-> "ALL_KEYS",
   min_trial_duration |-> 4000,
   post_trial_gap |-> 250,
   data |-> [condition |-> condition, stage |-> "train", item_idx |-> block.item_idx,
             verb |-> block.verb, contrast_verbs |-> block.contrast_verbs,
             nonce_verb |-> block.nonce_verb,
             sentence |-> trial.sentence_data.sentence, scene |-> trial.scene]]

P1TrainingTrials(block, condition, shuffled) ==
  [i \in 1..Len(shuffled) |-> P1SceneTrial(block, condition, shuffled[i])]

\* all_sentence_htmls[i] + all_image_htmls[i], wrapped and joined
P1TrainSummary(condition, shuffled) ==
  Join([i \in 1..Len(shuffled) |->
          <<"<div class='trial-summary'>">> \o P1SentenceHtml(condition, shuffled[i])
          \o ImageHtml(shuffled[i].scene_image_url) \o <<"</div>">>])

P1TestTrial(block, condition, shuffled, test_labels) ==
  [type |-> "html-slider-response",
   stimulus |-> <<"<div style='margin: auto'><p>You saw the following examples:</p>">>
                \o P1TrainSummary(condition, shuffled)
                \o <<"<br style='clear: left' /><p>Our linguists think that the verb <strong>",
                     block.nonce_verb, "</strong> might have ... mapping.</p></div>">>,
   labels |-> test_labels,
   require_movement |-> TRUE,
   data |-> [condition |-> condition, stage |-> "test", item_idx |-> block.item_idx,
             verb |-> block.verb, contrast_verbs |-> block.contrast_verbs,
             nonce_verb |-> block.nonce_verb,
             sentences |-> [i \in 1..Len(shuffled) |-> shuffled[i].sentence_data.sentence],
             scenes |-> [i \in 1..Len(shuffled) |-> shuffled[i].scene],
             slider_labels |-> test_labels]]

P1ItemChunk(block, condition, shuffled, test_labels) ==
  [chunk_type |-> "linear",
   timeline |-> <<P1IntroBlock(block, condition)>>
                \o P1TrainingTrials(block, condition, shuffled)
                \o <<P1TestTrial(block, condition, shuffled, test_labels)>>]

P1Preloads(shuffled) == [i \in 1..Len(shuffled) |-> shuffled[i].scene_image_url]

\* every way the block callback can end; it has no assertion
P1ItemRuns(block) ==
  {[throws |-> FALSE,
    chunk |-> P1ItemChunk(block, condition, shuffled, test_labels),
    images |-> P1Preloads(shuffled)] :
     condition \in Range(CONDITIONS),
     shuffled \in Shuffles(block.trials),
     test_labels \in Shuffles(P1RealVerbs(block))}

(***************************************************************************)
(* part_000: setup_experiment.  $.map flattens the arrays its callback      *)
(* returns, so train_trials is one flat list of scene/iti pairs.            *)
(***************************************************************************)
P0SceneBlock(trial) ==
  [type |-> "image-keyboard-response",
   stimulus |-> trial.scene_image_url,
   choices |-> "NO_KEYS",
   prompt |-> "Testing",
   trial_duration |-> 5000]

P0ItemTrials(item) ==
  Join([i \in 1..Len(item) |-> <<P0SceneBlock(item[i]), iti_block>>])

P0TrainTrials(data) ==
  Join([i \in 1..Len(data.items) |-> P0ItemTrials(data.items[i])])

(***************************************************************************)
(* setup_experiment: the whole timeline.                                    *)
(***************************************************************************)
ItemRuns(v, item) == IF v = "exp" THEN ExpItemRuns(item) ELSE P1ItemRuns(item)

\* experiment_blocks: the pushes and the concat around the generated part
ExperimentBlocks(v, generated) ==
  IF v = "exp" THEN <<instructions_block>> \o generated \o <<comments_block>>
  ELSE IF v = "part_001"
  THEN <<instructions_block, age_block, demo_block>> \o generated \o <<comments_block>>
  ELSE <<instructions_block, age_block, demo_block, iti_block>> \o generated
       \o <<comments_block>>

\* every way setup_experiment(data) can end: an item callback throws and
\* nothing after it runs, or jsPsych.init gets a timeline and the images
SetupRuns(v, data) ==
  IF v = "part_000"
  THEN {[throws |-> FALSE,
         timeline |-> ExperimentBlocks(v, P0TrainTrials(data)),
         preload_images |-> <<>>]}
  ELSE LET items == ItemsOf(v, data)
           runs == [i \in 1..Len(items) |-> ItemRuns(v, items[i])]
       IN IF \E i \in 1..Len(items) : \E r \in runs[i] : r.throws
          THEN {[throws |-> TRUE]}
          ELSE {[throws |-> FALSE,
                 timeline |-> ExperimentBlocks(v, [i \in 1..Len(rs) |-> rs[i].chunk]),
                 preload_images |-> Join([i \in 1..Len(rs) |-> rs[i].images])] :
                  rs \in SeqChoices(runs)}

(***************************************************************************)
(* The callbacks handed to jsPsych.init and psiturk.saveData.  `calls` is   *)
(* the sequence of calls the page has made on jsPsych, psiturk and console. *)
(***************************************************************************)
Call(fn, args) == [fn |-> fn, args |-> args]

\* mutant of OnDataUpdate: the record is not forwarded
OnDataUpdate_Drops(cs, data) == cs

\* on_data_update: function(data) { psiturk.recordTrialData(data); }
OnDataUpdate(cs, data) == Append(cs, Call("psiturk.recordTrialData", <<data>>))

\* on_finish: function() { psiturk.saveData({success: ..., error: ...}); }
OnFinish(cs) == Append(cs, Call("psiturk.saveData", <<>>))

\* success: function() { psiturk.completeHIT(); }
OnSaveSuccess(cs) == Append(cs, Call("psiturk.completeHIT", <<>>))

\* mutant of OnSaveError: the failed save is tried again
OnSaveError_Retries(cs) == Append(cs, Call("psiturk.saveData", <<>>))

\* error: function() { console.log("error saving data"); }
OnSaveError(cs) == Append(cs, Call("console.log", <<"error saving data">>))

\* what a participant's answer to one trial can be
Responses == {"f", "j"}

(***************************************************************************)
(* State machine of one page load.                                          *)
(***************************************************************************)
TypeOK ==
  /\ variant \in Variants
  /\ pc \in {"fetching", "fetch_failed", "aborted", "running", "saving",
             "complete", "save_failed"}

InitWith(nItems, nTrials) ==
  /\ variant \in Variants
  /\ payload \in Payloads(variant, nItems, nTrials)
  /\ pc = "fetching"
  /\ timeline = <<>>
  /\ preload_images = <<>>
  /\ calls = <<>>
  /\ produced = <<>>

Init == InitWith(SessionItems, SessionTrials)

InitAssembly == InitWith(MaxItems, MaxTrials)

\* $.getJSON's success callback: setup_experiment(item_seq), all of it
FetchSuccess ==
  /\ pc = "fetching"
  /\ \E r \in SetupRuns(variant, payload) :
       IF r.throws
       THEN /\ pc' = "aborted"
            /\ UNCHANGED <<timeline, preload_images, calls>>
       ELSE /\ pc' = "running"
            /\ timeline' = r.timeline
            /\ preload_images' = r.preload_images
            /\ calls' = Append(calls, Call("jsPsych.init", <<>>))
  /\ UNCHANGED <<variant, payload, produced>>

\* the request fails: $.getJSON was given no failure handler
FetchFail ==
  /\ pc = "fetching"
  /\ pc' = "fetch_failed"
  /\ UNCHANGED <<variant, payload, timeline, preload_images, calls, produced>>

\* the runner finishes a trial and emits its record to on_data_update
DataUpdate ==
  /\ pc = "running"
  /\ Len(produced) < MaxRecords
  /\ \E response \in Responses :
       LET data == [trial_index |-> Len(produced), response |-> response]
       IN /\ produced' = Append(produced, data)
          /\ calls' = OnDataUpdate(calls, data)
  /\ UNCHANGED <<variant, payload, pc, timeline, preload_images>>

\* the runner reaches the end of the timeline and calls on_finish
RunnerFinish ==
  /\ pc = "running"
  /\ pc' = "saving"
  /\ calls' = OnFinish(calls)
  /\ UNCHANGED <<variant, payload, timeline, preload_images, produced>>

\* psiturk.saveData reports success
SaveSucceeds ==
  /\ pc = "saving"
  /\ pc' = "complete"
  /\ calls' = OnSaveSuccess(calls)
  /\ UNCHANGED <<variant, payload, timeline, preload_images, produced>>

\* psiturk.saveData reports an error
SaveFails ==
  /\ pc = "saving"
  /\ pc' = "save_failed"
  /\ calls' = OnSaveError(calls)
  /\ UNCHANGED <<variant, payload, timeline, preload_images, produced>>

Next ==
  \/ FetchSuccess
  \/ FetchFail
  \/ DataUpdate
  \/ RunnerFinish
  \/ SaveSucceeds
  \/ SaveFails

Spec == Init /\ [][Next]_vars

\* assembly alone, over the larger payloads
NextAssembly ==
  \/ FetchSuccess
  \/ FetchFail

SpecAssembly == InitAssembly /\ [][NextAssembly]_vars

(***************************************************************************)
(* Reading the assembled timeline back.                                     *)
(***************************************************************************)
\* jsPsych.init has been called
Assembled == pc \in {"running", "saving", "complete", "save_failed"}

\* a revision that generates one chunk per item, and has done so
Generated == Assembled /\ variant \in {"exp", "part_001"}

Items == ItemsOf(variant, payload)

IsChunk(b) == "chunk_type" \in DOMAIN b

Chunks == SelectSeq(timeline, IsChunk)

IntroOf(chunk) == chunk.timeline[1]

TestOf(chunk) == chunk.timeline[Len(chunk.timeline)]

TrainingOf(chunk) == SubSeq(chunk.timeline, 2, Len(chunk.timeline) - 1)

FnsOf(cs) == [k \in 1..Len(cs) |-> cs[k].fn]

IsRecordCall(c) == c.fn = "psiturk.recordTrialData"

\* the pieces of a training stimulus: its prompt (two pieces in exp.js, one
\* in part_001), the sentences, the query (five pieces, three) and the image
PromptLen == IF variant = "exp" THEN 2 ELSE 1
QueryLen == IF variant = "exp" THEN 5 ELSE 3
SentencesIn(stimulus) == SubSeq(stimulus, PromptLen + 1, Len(stimulus) - QueryLen - 3)
ImageIn(stimulus) == SubSeq(stimulus, Len(stimulus) - 2, Len(stimulus))
UrlIn(stimulus) == stimulus[Len(stimulus) - 1]

\* the recap of the test block: exp.js keeps it in the preamble between one
\* leading piece and five trailing ones, part_001 in the stimulus between
\* one and three
RecapOf(test) ==
  IF variant = "exp"
  THEN SubSeq(test.preamble, 2, Len(test.preamble) - 5)
  ELSE SubSeq(test.stimulus, 2, Len(test.stimulus) - 3)

\* how often x occurs in the sequence s
Count(s, x) == Cardinality({k \in 1..Len(s) : s[k] = x})

SameBag(s, t) == Len(s) = Len(t) /\ \A x \in Range(s) \cup Range(t) : Count(s, x) = Count(t, x)

\* the verb stems a stimulus shows, in order: the piece after each opening
\* of a zarf-sentence paragraph
StemsIn(html) ==
  LET pos == SelectSeq([k \in 1..Len(html) |-> k],
                       LAMBDA k : html[k] = "<p class='zarf-sentence' data-verb='")
  IN [j \in 1..Len(pos) |-> html[pos[j] + 1]]

\* the real verbs the trials of an item exercise
TrainedVerbs(item) ==
  IF variant = "exp"
  THEN UNION {{item.trials[t].sentence_data[n].verb_stem :
                  n \in 1..Len(item.trials[t].sentence_data)} :
                t \in 1..Len(item.trials)}
  ELSE {item.trials[t].sentence_data.verb.stem : t \in 1..Len(item.trials)}

\* the candidate verbs an item declares
DeclaredVerbs(item) ==
  IF variant = "exp"
  THEN {item.verbs[k].verb : k \in 1..Len(item.verbs)}
  ELSE {item.verb, IF item.contrast_verbs = <<>> THEN UNDEFINED ELSE item.contrast_verbs[1]}

\* the option sets the test of a chunk offers, one per question or slider
OfferedSets(chunk) ==
  IF variant = "exp"
  THEN {Range(q.options) : q \in Range(TestOf(chunk).questions)}
  ELSE {Range(TestOf(chunk).labels)}

(***************************************************************************)
(* Claims.                                                                  *)
(***************************************************************************)
\* C1 as stated: for every item and every shuffle outcome, the answer options
\* offered at the item's test are exactly the real verbs the item's training
\* trials exercise.
\* Stated here for the items of the data model alone: at least one trial,
\* two declared candidates.
C1_OptionsAreTrainedVerbs ==
  Generated =>
    LET items == Items
        chunks == Chunks
    IN \A i \in 1..Len(items) :
         (items[i].trials # <<>> /\ Cardinality(DeclaredVerbs(items[i]) \ {UNDEFINED}) = 2) =>
           \A offered \in OfferedSets(chunks[i]) : offered = TrainedVerbs(items[i])

\* C1 (amended): for every item and every shuffle outcome, the answer options
\* offered at the item's test are exactly the candidate verbs the item
\* declares (the keys of item.verbs in exp.js; block.verb and
\* block.contrast_verbs[0] in part_001), whatever verbs its trials exercise.
C1_OptionsAreDeclaredVerbs ==
  Generated =>
    LET items == Items
        chunks == Chunks
    IN /\ Len(chunks) = Len(items)
       /\ \A i \in 1..Len(items) :
            \A offered \in OfferedSets(chunks[i]) : offered = DeclaredVerbs(items[i])

\* an assembled item whose test offers options, and whose trials exercise
\* other verbs than it declares
C1_Witness ==
  /\ Generated
  /\ \E i \in 1..Len(Items) :
       /\ OfferedSets(Chunks[i]) # {}
       /\ Items[i].trials # <<>>
       /\ TrainedVerbs(Items[i]) # DeclaredVerbs(Items[i])

\* block b renders trial t: it shows the trial's scene image and one
\* sentence per entry of the trial's sentence data, for the same verbs
RendersTrial(b, t) ==
  /\ UrlIn(b.stimulus) = t.scene_image_url
  /\ IF variant = "exp"
     THEN SameBag(StemsIn(b.stimulus),
                  [n \in 1..Len(t.sentence_data) |-> t.sentence_data[n].verb_stem])
     ELSE /\ StemsIn(b.stimulus) = <<t.sentence_data.verb.stem>>
          /\ b.data.sentence = t.sentence_data.sentence
          /\ b.data.scene = t.scene

Permutations(n) == {q \in [1..n -> 1..n] : \A i, j \in 1..n : q[i] = q[j] => i = j}

\* C2: for every item and every shuffle outcome, the chunk's timeline is the
\* intro block, then one training block per trial of the item, the blocks
\* being a permutation of the trials, then one test block.
C2_ChunkIsIntroTrainingTest ==
  Generated =>
    LET items == Items
        chunks == Chunks
    IN
    /\ Len(chunks) = Len(items)
    /\ \A i \in 1..Len(items) :
         LET chunk == chunks[i]
             trials == items[i].trials
             training == TrainingOf(chunk)
         IN /\ Len(chunk.timeline) = Len(trials) + 2
            /\ IntroOf(chunk).type = "instructions"
            /\ TestOf(chunk).type \in {"survey-multi-choice", "html-slider-response"}
            /\ \A k \in 1..Len(training) :
                 training[k].type \in {"html-keyboard-response",
                                       "delayed-html-keyboard-response"}
            /\ \E p \in Permutations(Len(trials)) :
                 \A k \in 1..Len(trials) : RendersTrial(training[k], trials[p[k]])

\* an item with two different trials, presented in the other order
C2_Witness ==
  /\ Generated
  /\ \E i \in 1..Len(Items) :
       /\ Len(Items[i].trials) = 2
       /\ Items[i].trials[1] # Items[i].trials[2]
       /\ RendersTrial(TrainingOf(Chunks[i])[1], Items[i].trials[2])
       /\ RendersTrial(TrainingOf(Chunks[i])[2], Items[i].trials[1])

\* item i has exactly two candidate verbs: two keys in item.verbs (exp.js),
\* the verb and exactly one contrast verb (part_001)
TwoCandidates(i) ==
  IF variant = "exp" THEN Len(Items[i].verbs) = 2 ELSE Len(Items[i].contrast_verbs) = 1

\* C3 as stated: if some item of the payload does not have exactly two
\* candidate verbs, assembly aborts: the runner is never started, no trial
\* data is recorded, the session is never marked complete -- items without
\* trials included.  Stated for exp.js, the revision that has the assertion
\* (part_001 has none: it proceeds on every payload).
C3_WrongVerbCountAborts ==
  (variant = "exp" /\ \E i \in 1..Len(Items) : ~TwoCandidates(i)) =>
    /\ pc \in {"fetching", "fetch_failed", "aborted"}
    /\ calls = <<>>
    /\ timeline = <<>>

\* C4 as stated: the list handed to the runner is the instructions block,
\* the two demographic blocks, one chunk per item in payload order, and the
\* comments block last; its length is the fixed blocks plus the items.
\* Stated for exp.js (part_000 fails it too: it adds iti_block and hands
\* over two flat blocks per trial instead of one chunk per item).
C4_TimelineIsFixedBlocksAroundChunks ==
  (Assembled /\ variant = "exp") =>
    /\ Len(timeline) = Len(Items) + 4
    /\ timeline[1] = instructions_block
    /\ timeline[2] = age_block
    /\ timeline[3] = demo_block
    /\ timeline[Len(timeline)] = comments_block
    /\ \A i \in 1..Len(Items) :
         /\ IsChunk(timeline[3 + i])
         /\ Len(timeline[3 + i].timeline) = Len(TrialsOf(variant, Items[i])) + 2

\* C5: calls happen only in the order jsPsych.init (once, after the fetch
\* succeeded and the timeline was assembled), recordTrialData any number of
\* times, saveData (once), then completeHIT after a save success or
\* console.log after a save error, and nothing after either: a failed save
\* is not retried and never completes the HIT.
C5_CallOrder ==
  LET fns == FnsOf(calls)
  IN /\ (pc \in {"fetching", "fetch_failed", "aborted"}) => calls = <<>>
     /\ Assembled => (calls # <<>> /\ timeline # <<>>)
     /\ \A k \in 1..Len(fns) :
          /\ fns[k] = "jsPsych.init" <=> k = 1
          /\ fns[k] = "psiturk.recordTrialData" =>
               fns[k - 1] \in {"jsPsych.init", "psiturk.recordTrialData"}
          /\ fns[k] = "psiturk.saveData" =>
               fns[k - 1] \in {"jsPsych.init", "psiturk.recordTrialData"}
          /\ fns[k] \in {"psiturk.completeHIT", "console.log"} =>
               (fns[k - 1] = "psiturk.saveData" /\ k = Len(fns))
     /\ Count(fns, "psiturk.saveData") = (IF pc \in {"saving", "complete", "save_failed"} THEN 1 ELSE 0)
     /\ Count(fns, "psiturk.completeHIT") = (IF pc = "complete" THEN 1 ELSE 0)
     /\ Count(fns, "console.log") = (IF pc = "save_failed" THEN 1 ELSE 0)

\* a save that failed, after the runner produced records
C5_Witness ==
  /\ pc = "save_failed"
  /\ produced # <<>>
  /\ FnsOf(calls)[Len(calls)] = "console.log"

\* C6: the records handed to recordTrialData are, one call per record and in
\* order, the records the runner has produced -- at every moment, so also
\* when saveData is called.
C6_RecordsForwardedInOrder ==
  LET forwarded == SelectSeq(calls, IsRecordCall)
  IN /\ Len(forwarded) = Len(produced)
     /\ \A k \in 1..Len(produced) : forwarded[k].args = <<produced[k]>>

\* saveData called after two different records
C6_Witness ==
  /\ pc = "saving"
  /\ Len(produced) >= 2
  /\ produced[1].response # produced[2].response

\* the presentation mode a training stimulus is rendered in: "verb" when
\* every sentence shows the nonce verb between two noise masks under the
\* lost-sentence prompt, "syntax" when it shows no mask under the
\* described-the-scene prompt
RenderedMode(stimulus) ==
  LET masked == Count(stimulus, "<span class='noise'>#####</span> <strong>")
      closed == Count(stimulus, "</strong> <span class='noise'>#####</span> !</p>")
      lost == "<p>The Zarf speaker saw ... we've lost everything but the verb they used. ...</p>"
              \in Range(stimulus)
      told == \E t \in Range(stimulus) :
                t \in {"<p>The Zarf speaker saw the following scene and described it with the sentences:</p>",
                       "<p>The Zarf speaker saw the following scene and described it with the sentence:</p>"}
      shown == Count(stimulus, "<p class='zarf-sentence' data-verb='")
  IN IF lost /\ ~told /\ masked = shown /\ closed = shown THEN "verb"
     ELSE IF told /\ ~lost /\ masked = 0 /\ closed = 0 /\ Count(stimulus, "</p>") = shown
     THEN "syntax"
     ELSE "mixed"

\* C8: every item has one condition, "verb" or "syntax"; the intro block,
\* every training block and the test block of its chunk carry it in their
\* data, and every training stimulus is rendered in that mode.
C8_OneConditionPerItem ==
  Generated =>
    LET chunks == Chunks
    IN \A i \in 1..Len(chunks) :
         LET condition == IntroOf(chunks[i]).data.condition
             training == TrainingOf(chunks[i])
         IN /\ condition \in {"verb", "syntax"}
            /\ \A k \in 1..Len(chunks[i].timeline) :
                 chunks[i].timeline[k].data.condition = condition
            /\ \A k \in 1..Len(training) : RenderedMode(training[k].stimulus) = condition

\* two items of one payload, both with training, under different conditions
C8_Witness ==
  /\ Generated
  /\ Len(Chunks) = 2
  /\ TrainingOf(Chunks[1]) # <<>>
  /\ TrainingOf(Chunks[2]) # <<>>
  /\ IntroOf(Chunks[1]).data.condition = "verb"
  /\ IntroOf(Chunks[2]).data.condition = "syntax"

\* C9: the order recorded with a test block is the order displayed.  exp.js:
\* data.verb_sequence is the sequence of the questions' verbs (question k is
\* named "meaning/" + verb_sequence[k]) and holds each verb of the item
\* once.  part_001: data.slider_labels is the labels list, data.sentences and
\* data.scenes list the training trials in the order presented.
C9_RecordedOrderIsDisplayedOrder ==
  Generated =>
    LET items == Items
        chunks == Chunks
    IN
    \A i \in 1..Len(chunks) :
      LET test == TestOf(chunks[i])
          training == TrainingOf(chunks[i])
      IN IF variant = "exp"
         THEN /\ Len(test.data.verb_sequence) = Len(test.questions)
              /\ \A k \in 1..Len(test.questions) :
                   test.questions[k].name = <<"meaning/", test.data.verb_sequence[k]>>
              /\ SameBag(test.data.verb_sequence,
                         [k \in 1..Len(items[i].verbs) |-> items[i].verbs[k].verb])
         ELSE /\ test.data.slider_labels = test.labels
              /\ test.data.sentences = [k \in 1..Len(training) |-> training[k].data.sentence]
              /\ test.data.scenes = [k \in 1..Len(training) |-> training[k].data.scene]

\* an exp.js test whose questions come in the other order than the keys of
\* item.verbs
C9_Witness ==
  /\ Generated
  /\ variant = "exp"
  /\ \E i \in 1..Len(Chunks) :
       /\ Len(Items[i].verbs) = 2
       /\ TestOf(Chunks[i]).data.verb_sequence =
            <<Items[i].verbs[2].verb, Items[i].verbs[1].verb>>

\* what the training blocks of a chunk showed, as the test recaps it:
\* exp.js the sentences of each block, part_001 each block's sentence and
\* image in a trial-summary div
ShownIn(chunk) ==
  Join([k \in 1..Len(TrainingOf(chunk)) |->
          LET stimulus == TrainingOf(chunk)[k].stimulus
          IN IF variant = "exp"
             THEN SentencesIn(stimulus)
             ELSE <<"<div class='trial-summary'>">> \o SentencesIn(stimulus)
                  \o ImageIn(stimulus) \o <<"</div>">>])

\* C10: the recap in an item's test block is exactly what that item's own
\* training blocks showed, in presentation order (part_001: entry k pairs
\* the sentence and the image of the k-th presented trial); the preload list
\* holds one entry per trial of the whole payload.
C10_RecapIsOwnTraining ==
  Generated =>
    LET items == Items
        chunks == Chunks
    IN
    /\ \A i \in 1..Len(chunks) : RecapOf(TestOf(chunks[i])) = ShownIn(chunks[i])
    /\ SameBag(preload_images,
               Join([i \in 1..Len(items) |->
                       [t \in 1..Len(items[i].trials) |-> items[i].trials[t].scene_image_url]]))
    /\ preload_images = Join([i \in 1..Len(chunks) |->
                                [k \in 1..(Len(chunks[i].timeline) - 2) |->
                                   UrlIn(chunks[i].timeline[k + 1].stimulus)]])

\* two items with different training, each recapped
C10_Witness ==
  /\ Generated
  /\ Len(Chunks) = 2
  /\ RecapOf(TestOf(Chunks[1])) # <<>>
  /\ RecapOf(TestOf(Chunks[2])) # <<>>
  /\ RecapOf(TestOf(Chunks[1])) # RecapOf(TestOf(Chunks[2]))

====
